---- MODULE Spec2Model ----
(***************************************************************************)
(* A model of the codebase-intelligence service:                           *)
(*   - the external service clients (external_apis/): the retrying         *)
(*     _make_request of the CCP VAP and CCP Execute clients, the           *)
(*     Databricks, generic and database clients, and the secret provider   *)
(*     AWSSecretsManager (specification Spec);                             *)
(*   - the retrieve-then-generate workflow of CodebaseAgent and the        *)
(*     CodebaseRetriever it uses (specification AgentSpec, AgentFairSpec); *)
(*   - the methods of CodebaseRetriever called directly, with any k        *)
(*     (specification RetrieverSpec);                                      *)
(*   - the file loading and splitting of CodebaseEmbedder (specification   *)
(*     EmbedderSpec);                                                      *)
(*   - embed_codebase, which loads, splits, embeds and saves an index,     *)
(*     followed by the construction of a CodebaseRetriever (specification  *)
(*     BuildSpec).                                                         *)
(***************************************************************************)
EXTENDS Integers, Sequences, FiniteSets, TLC

VARIABLES
    awsClient,   \* [SecretsInstances -> BOOLEAN]: AWSSecretsManager.client is not None
    op,          \* the client operation of the current call, "none" before the first
    pc,          \* "idle" | "request" | "sleep" | "connect" | "returned" | "raised"
    env,         \* the Environment of the current call
    attempt,     \* the loop variable of _make_request
    log,         \* the outward events of the current call, in order
    outcomes,    \* the transport outcomes of the call's HTTP attempts, in order
    slept,       \* total time passed to asyncio.sleep in the current call
    lookup,      \* the credential lookup of the current call
    query,       \* the SQL text of the current execute_query call, as tokens
    database,    \* credentials['database'] of the current execute_query call
    result,      \* the value returned by the current call
    disk,        \* [Repos -> what is persisted at the repository's vectorstore path]
    vectorstores,\* [Repos -> the index CodebaseRetriever holds, or Absent]
    qpc,         \* [QueryIds -> the node a query_codebase call is at]
    state,       \* [QueryIds -> the AgentState of the call]
    llm_input,   \* [QueryIds -> the message sequence last given to llm.invoke]
    trace,       \* [QueryIds -> the nodes run and model invocations made, in order]
    workflow,    \* the module whose CodebaseAgent was constructed
    faults,      \* [QueryIds -> the failures that happened inside the call so far]
    req,         \* [QueryIds -> the codebase field of the request and the searches made for it]
    retriever,   \* "none" | "constructed" | "raised": CodebaseRetriever()
    rcall,       \* the last direct call of a CodebaseRetriever method, with its result
    tree,        \* the directory tree given to CodebaseEmbedder.load_code_files
    loaded,      \* the result of load_code_files(tree), once called
    chunked,     \* the result of split_documents on it, once called
    ecall        \* the last embed_codebase call, with its result

extVars ==
    <<awsClient, op, pc, env, attempt, log, outcomes, slept, lookup, query, database, result>>

agentVars == <<disk, vectorstores, qpc, state, llm_input, trace, workflow, faults, req>>

toolVars == <<retriever, rcall>>

ingestVars == <<tree, loaded, chunked, ecall>>

vars == <<extVars, agentVars, toolVars, ingestVars>>

----------------------------------------------------------------------------
(* external_apis/config.py *)

Environments == {"qa", "beta", "prod"}

MAX_RETRIES == 3
RETRY_DELAY == 1

DATABASE_SECRETS ==
    [e \in Environments |->
        CASE e = "qa"   -> "rds/beta/ccp-beta-psql"
          [] e = "beta" -> "rds/beta/ccp-beta-psql"
          [] e = "prod" -> "rds/prod/ccp-prod-psql"]

DATABASE_NAMES ==
    [e \in Environments |->
        CASE e = "qa"   -> "ccp_qa"
          [] e = "beta" -> "ccp_beta"
          [] e = "prod" -> "ccp_prod"]

get_database_secret(e) == IF e \in DOMAIN DATABASE_SECRETS THEN DATABASE_SECRETS[e] ELSE ""

get_database_name(e) == IF e \in DOMAIN DATABASE_NAMES THEN DATABASE_NAMES[e] ELSE ""

----------------------------------------------------------------------------
(* external_apis/models.py: APIResponse, and the result dict of the        *)
(* database client (which has no status code: status_code is 0 there).     *)

NoError == [kind |-> "none", status |-> 0, text |-> ""]

\* The error string: its fixed prefix (kind), the status and the text it embeds.
ErrorText(kind, status, text) == [kind |-> kind, status |-> status, text |-> text]

APIResponse(success, data, error, status_code) ==
    [success |-> success, data |-> data, error |-> error, status_code |-> status_code]

NoResult == [success |-> FALSE, data |-> "unset", error |-> NoError, status_code |-> 0]

----------------------------------------------------------------------------
(* The HTTP transport (httpx / aiohttp): what one attempt can produce.     *)

Statuses == {200, 201, 404, 500}

\* The body of a response: a JSON object, JSON null, a JSON array (which
\* parses but is no Dict for APIResponse.data), or text that is not JSON.
Bodies == {"json_object", "json_null", "json_array", "not_json"}

Responses == [kind : {"response"}, status : Statuses, body : Bodies]

Timeouts == [kind : {"timeout"}, status : {0}, body : {"ReadTimeout", "ConnectTimeout"}]

TransportErrors == [kind : {"error"}, status : {0}, body : {"ConnectError"}]

Transport == Responses \cup Timeouts \cup TransportErrors

----------------------------------------------------------------------------
(* external_apis/aws_secrets.py *)

SecretsInstances == {"global", "database"}

None == [none |-> TRUE, keys |-> {}, origin |-> "none", engine |-> "none"]

Secret(keys, origin, engine) ==
    [none |-> FALSE, keys |-> keys, origin |-> origin, engine |-> engine]

DatabaseKeys == {"username", "password", "engine", "host", "port", "dbInstanceIdentifier"}

DatabricksKeys == {"db_host", "token"}

MockNames ==
    {"database/qa/credentials", "database/beta/credentials", "database/prod/credentials",
     "databricks/qa/sp_ccp", "databricks/beta/sp_ccp", "databricks/prod/sp_ccp"}

mock_secrets ==
    [n \in MockNames |->
        IF n \in {"database/qa/credentials", "database/beta/credentials",
                  "database/prod/credentials"}
        THEN Secret(DatabaseKeys, "mock", "postgresql")
        ELSE Secret(DatabricksKeys, "mock", "none")]

\* mock_secrets.get(secret_name, None)
get_mock_secret(secret_name) ==
    IF secret_name \in DOMAIN mock_secrets THEN mock_secrets[secret_name] ELSE None

\* What the store can hold under a name, as the parsed SecretString: a JSON
\* object with some keys, or JSON null (which json.loads parses to None).
StoreValues ==
    {None,
     Secret(DatabricksKeys, "aws", "none"),
     Secret({"db_host"}, "aws", "none"),
     Secret({}, "aws", "none"),
     Secret(DatabaseKeys, "aws", "postgresql"),
     Secret(DatabaseKeys, "aws", "mysql")}

\* What client.get_secret_value does in one call: a response with a
\* SecretString that json.loads parses, one that it does not parse, a response
\* without SecretString, ClientError(ResourceNotFoundException), another
\* ClientError, or another exception.
StoreReplies ==
    [kind : {"secret_string"}, value : StoreValues]
    \cup [kind : {"invalid_secret_string", "no_secret_string", "not_found",
                  "client_error", "exception"}, value : {None}]

Found(value, mock) == [value |-> value, mock |-> mock, raised |-> FALSE]

\* Variant: an error other than not-found is re-raised instead of falling back.
get_secret_reraise(hasClient, secret_name, reply) ==
    IF ~hasClient
    THEN Found(get_mock_secret(secret_name), TRUE)
    ELSE CASE reply.kind = "secret_string" -> Found(reply.value, FALSE)
           [] reply.kind = "no_secret_string" -> Found(get_mock_secret(secret_name), TRUE)
           [] reply.kind = "not_found" -> Found(get_mock_secret(secret_name), TRUE)
           [] OTHER -> [value |-> None, mock |-> FALSE, raised |-> TRUE]

\* AWSSecretsManager.get_secret: the value returned, whether _get_mock_secret
\* was consulted, and whether an exception left the method. A store reply is
\* looked at only when the instance has a client.
get_secret(hasClient, secret_name, reply) ==
    IF ~hasClient
    THEN Found(get_mock_secret(secret_name), TRUE)                      \* lines 45-47
    ELSE CASE reply.kind = "secret_string" ->                           \* lines 52-55
                Found(reply.value, FALSE)
           [] reply.kind = "no_secret_string" ->                        \* lines 56-58
                Found(get_mock_secret(secret_name), TRUE)
           [] reply.kind = "not_found" ->                               \* lines 60-64
                Found(get_mock_secret(secret_name), TRUE)
           [] reply.kind = "client_error" ->                            \* lines 65-68
                Found(get_mock_secret(secret_name), TRUE)
           [] reply.kind \in {"invalid_secret_string", "exception"} ->  \* lines 69-72
                Found(get_mock_secret(secret_name), TRUE)

NoLookup == [made |-> FALSE, name |-> "", reply |-> [kind |-> "none", value |-> None],
             value |-> None, mock |-> FALSE, raised |-> FALSE]

Lookup(hasClient, name, reply) ==
    LET r == get_secret(hasClient, name, reply)
    IN  [made |-> TRUE, name |-> name,
         reply |-> IF hasClient THEN reply ELSE [kind |-> "none", value |-> None],
         value |-> r.value, mock |-> r.mock, raised |-> r.raised]

----------------------------------------------------------------------------
(* external_apis/ccp_vap_client.py, ccp_execute_client.py: _make_request   *)
(* (the two copies are the same text).                                     *)

ExecutorOps ==
    {"vap.get_graph_entities", "vap.get_link_status", "execute.get_execution_details"}

\* What one pass through the loop body decides: return a response, sleep and
\* go round again, or let an exception leave _make_request.
Return(r) == [ctl |-> "return", res |-> r]
SleepThenRetry == [ctl |-> "sleep", res |-> NoResult]
Propagate == [ctl |-> "raise", res |-> NoResult]

\* response.json() raises on a body that is not JSON; APIResponse(data=...)
\* raises a validation error on a JSON value that is neither a dict nor null.
BodyWraps(body) == body \in {"json_object", "json_null"}

\* Variant: a timeout is answered at once, without retry.
OnTimeout_noretry(i) ==
    Return(APIResponse(FALSE, "none", ErrorText("Request timeout", 0, ""), 408))

\* Variant: the 408 response is returned one attempt early.
OnTimeout_earlystop(i) ==
    IF i >= MAX_RETRIES - 2
    THEN Return(APIResponse(FALSE, "none", ErrorText("Request timeout", 0, ""), 408))
    ELSE SleepThenRetry

\* except httpx.TimeoutException (lines 62-69), in iteration i of the loop
OnTimeout(i) ==
    IF i = MAX_RETRIES - 1
    THEN Return(APIResponse(FALSE, "none", ErrorText("Request timeout", 0, ""), 408))
    ELSE SleepThenRetry

\* Variant: no `except Exception` clause; the exception leaves the method.
OnException_unhandled(text) == Propagate

\* except Exception as e (lines 71-76)
OnException(text) ==
    Return(APIResponse(FALSE, "none", ErrorText("Request failed", 0, text), 500))

\* Variant: a 5xx status is retried like a timeout.
OnResponse_retry5xx(status, body) ==
    IF status = 200
    THEN IF BodyWraps(body)
         THEN Return(APIResponse(TRUE, body, NoError, status))
         ELSE OnException(body)
    ELSE IF status >= 500
         THEN SleepThenRetry
         ELSE Return(APIResponse(FALSE, "none", ErrorText("HTTP", status, body), status))

\* the try block once client.request has returned a response (lines 49-60)
OnResponse(status, body) ==
    IF status = 200
    THEN IF BodyWraps(body)
         THEN Return(APIResponse(TRUE, body, NoError, status))
         ELSE OnException(body)
    ELSE Return(APIResponse(FALSE, "none", ErrorText("HTTP", status, body), status))

\* Variant: transport errors are retried like timeouts.
Iteration_retryerrors(i, t) ==
    CASE t.kind = "response" -> OnResponse(t.status, t.body)
      [] t.kind = "timeout"  -> OnTimeout(i)
      [] t.kind = "error"    -> OnTimeout(i)

\* one iteration of the loop (lines 40-76) on transport outcome t
Iteration(i, t) ==
    CASE t.kind = "response" -> OnResponse(t.status, t.body)
      [] t.kind = "timeout"  -> OnTimeout(i)
      [] t.kind = "error"    -> OnException(t.body)

\* get_graph_entities, get_link_status, get_execution_details: build the URL
\* and enter _make_request.
CallExecutor(o, e) ==
    /\ pc = "idle"
    /\ op' = o
    /\ env' = e
    /\ pc' = "request"
    /\ attempt' = 0
    /\ log' = <<>>
    /\ outcomes' = <<>>
    /\ slept' = 0
    /\ lookup' = NoLookup
    /\ query' = <<>>
    /\ database' = ""
    /\ result' = NoResult
    /\ UNCHANGED <<awsClient, agentVars, toolVars, ingestVars>>

\* await client.request(...) and what the loop body does with its outcome
MakeRequestAttempt(t) ==
    /\ pc = "request"
    /\ op \in ExecutorOps
    /\ attempt < MAX_RETRIES
    /\ LET d == Iteration(attempt, t)
       IN  /\ pc' = CASE d.ctl = "return" -> "returned"
                      [] d.ctl = "sleep"  -> "sleep"
                      [] d.ctl = "raise"  -> "raised"
           /\ result' = d.res
    /\ log' = Append(log, "http")
    /\ outcomes' = Append(outcomes, t)
    /\ UNCHANGED <<agentVars, toolVars, ingestVars, awsClient, op, env, attempt, slept, lookup, query, database>>

\* await asyncio.sleep(RETRY_DELAY), then the next iteration of the loop, or
\* the return after the loop (lines 78-82) when the range is exhausted
MakeRequestSleep ==
    /\ pc = "sleep"
    /\ op \in ExecutorOps
    /\ slept' = slept + RETRY_DELAY
    /\ log' = Append(log, "sleep")
    /\ attempt' = attempt + 1
    /\ IF attempt + 1 < MAX_RETRIES
       THEN /\ pc' = "request"
            /\ UNCHANGED result
       ELSE /\ pc' = "returned"
            /\ result' = APIResponse(FALSE, "none", ErrorText("Max retries exceeded", 0, ""), 500)
    /\ UNCHANGED <<agentVars, toolVars, ingestVars, awsClient, op, env, outcomes, lookup, query, database>>

----------------------------------------------------------------------------
(* external_apis/databricks_client.py, generic_client.py *)

DatabricksOps ==
    {"databricks.get_client_ncs_details", "databricks.get_job_run_details",
     "generic.get_job_run_details"}

\* f"databricks/{env.value}/sp_ccp"
DatabricksSecretName(e) == "databricks/" \o e \o "/sp_ccp"

\* `not credentials`: None or an empty dict
Falsy(credentials) == credentials.none \/ credentials.keys = {}

Proceed == [ctl |-> "proceed", res |-> NoResult]

\* Variant: the credential checks are missing.
CheckCredentials_nocheck(o, l, hasEndpoint) == Proceed

\* The part of the three operations between the credential lookup and the
\* outbound request. Every exception in it is caught by the operation's
\* `except Exception` and becomes a 500 response.
CheckCredentials(o, l, hasEndpoint) ==
    IF l.raised
    THEN Return(APIResponse(FALSE, "none", ErrorText("", 0, "secret error"), 500))
    ELSE IF Falsy(l.value)
    THEN Return(APIResponse(FALSE, "none",
                    ErrorText("Failed to fetch Databricks credentials", 0, ""), 500))
    ELSE IF ~({"db_host", "token"} \subseteq l.value.keys)
    THEN Return(APIResponse(FALSE, "none",
                    ErrorText("Missing required Databricks credentials", 0, ""), 500))
    ELSE IF o = "generic.get_job_run_details" /\ ~hasEndpoint
    THEN \* request.endpoint raises AttributeError (generic_client.py line 80)
         Return(APIResponse(FALSE, "none", ErrorText("", 0, "no attribute 'endpoint'"), 500))
    ELSE Proceed

\* The operation up to its outbound request. hasEndpoint: the request object
\* given to GenericClient has an `endpoint` attribute (JobRunDetailsRequest
\* declares none).
CallDatabricks(o, e, reply, hasEndpoint) ==
    /\ pc = "idle"
    /\ op' = o
    /\ env' = e
    /\ attempt' = 0
    /\ outcomes' = <<>>
    /\ slept' = 0
    /\ query' = <<>>
    /\ database' = ""
    /\ log' = <<"secret">>
    /\ lookup' = Lookup(awsClient["global"], DatabricksSecretName(e), reply)
    /\ LET d == CheckCredentials(o, lookup', hasEndpoint)
       IN  /\ pc' = IF d.ctl = "proceed" THEN "request" ELSE "returned"
           /\ result' = d.res
    /\ UNCHANGED <<awsClient, agentVars, toolVars, ingestVars>>

\* session.get(...) and the handling of its outcome: one attempt, and every
\* exception (a timeout included) is caught and becomes a 500 response.
DatabricksOutcome(t) ==
    CASE t.kind = "response" ->
            IF t.status = 200
            THEN IF BodyWraps(t.body)
                 THEN Return(APIResponse(TRUE, t.body, NoError, 200))
                 ELSE Return(APIResponse(FALSE, "none", ErrorText("", 0, t.body), 500))
            ELSE Return(APIResponse(FALSE, "none",
                            ErrorText("request failed", t.status, t.body), t.status))
      [] t.kind = "timeout" -> Return(APIResponse(FALSE, "none", ErrorText("", 0, t.body), 500))
      [] t.kind = "error" -> Return(APIResponse(FALSE, "none", ErrorText("", 0, t.body), 500))

DatabricksAttempt(t) ==
    /\ pc = "request"
    /\ op \in DatabricksOps
    /\ pc' = "returned"
    /\ result' = DatabricksOutcome(t).res
    /\ log' = Append(log, "http")
    /\ outcomes' = Append(outcomes, t)
    /\ UNCHANGED <<agentVars, toolVars, ingestVars, awsClient, op, env, attempt, slept, lookup, query, database>>

----------------------------------------------------------------------------
(* external_apis/database_client.py *)

\* SQL text as a sequence of tokens: keywords in either case, a statement
\* separator, an identifier, whitespace, a line comment, a block comment.
CommentTokens == {"--c", "/*c*/"}

upper(tok) ==
    CASE tok = "select" -> "SELECT"
      [] tok = "delete" -> "DELETE"
      [] OTHER -> tok

RECURSIVE Clean(_)
\* re.sub of both comment forms, whitespace collapsed and stripped, upper-cased:
\* the tokens that are left, without comments and leading whitespace
Clean(q) ==
    IF q = <<>> THEN <<>>
    ELSE IF Head(q) \in CommentTokens \cup {" "} THEN Clean(Tail(q))
    ELSE <<upper(Head(q))>> \o Clean(Tail(q))

\* _validate_select_query: query_clean.startswith('SELECT')
validate_select_query(q) ==
    LET query_clean == Clean(q)
    IN  query_clean # <<>> /\ Head(query_clean) = "SELECT"

Queries ==
    {<<"SELECT", " ", "x">>,
     <<"select", " ", "x">>,
     <<"--c", " ", "SELECT", " ", "x">>,
     <<"SELECT", " ", "x", ";", "DELETE", " ", "x">>,
     <<"DELETE", " ", "x">>,
     <<"/*c*/", "DROP", " ", "x">>,
     <<>>}

\* The result dict of execute_query (no status code: status_code is 0).
QueryResult(success, data, error) == APIResponse(success, data, error, 0)

\* execute_query up to the connection (lines 94-117 and the handler at
\* 119-127): validation, then _get_database_credentials, which raises
\* ValueError on None; every exception becomes a failure dict.
ExecuteQueryStart(q, l) ==
    IF ~validate_select_query(q)
    THEN Return(QueryResult(FALSE, "none", ErrorText("Only SELECT statements are allowed", 0, "")))
    ELSE IF l.raised
    THEN Return(QueryResult(FALSE, "none", ErrorText("", 0, "secret error")))
    ELSE IF l.value.none
    THEN Return(QueryResult(FALSE, "none", ErrorText("", 0, "No credentials found for secret")))
    ELSE Proceed

CallExecuteQuery(q, e, reply) ==
    /\ pc = "idle"
    /\ op' = "database.execute_query"
    /\ env' = e
    /\ attempt' = 0
    /\ outcomes' = <<>>
    /\ slept' = 0
    /\ query' = q
    /\ LET l == Lookup(awsClient["database"], get_database_secret(e), reply)
           d == ExecuteQueryStart(q, l)
       IN  /\ lookup' = IF validate_select_query(q) THEN l ELSE NoLookup
           /\ log' = IF validate_select_query(q) THEN <<"secret">> ELSE <<>>
           /\ database' = IF d.ctl = "proceed" THEN get_database_name(e) ELSE ""
           /\ pc' = IF d.ctl = "proceed" THEN "connect" ELSE "returned"
           /\ result' = d.res
    /\ UNCHANGED <<awsClient, agentVars, toolVars, ingestVars>>

\* What the driver does: rows, an error of the connection or the statement,
\* or (MySQL only) the connector module missing.
DbOutcomes == {"rows", "db_error", "import_error"}

\* _execute_postgres_query / _execute_mysql_query: connect, execute, fetch;
\* every exception is caught and becomes a failure dict.
DatabaseConnect(o) ==
    /\ pc = "connect"
    /\ op = "database.execute_query"
    /\ o = "import_error" => lookup.value.engine = "mysql"
    /\ pc' = "returned"
    /\ log' = Append(log, IF o = "import_error" THEN "import" ELSE "connect")
    /\ result' = IF o = "rows"
                 THEN QueryResult(TRUE, "rows", NoError)
                 ELSE QueryResult(FALSE, "none", ErrorText(lookup.value.engine, 0, o))
    /\ UNCHANGED <<agentVars, toolVars, ingestVars, awsClient, op, env, attempt, outcomes, slept, lookup, query, database>>

----------------------------------------------------------------------------
(* A direct call of AWSSecretsManager.get_secret on one of the instances.  *)

SecretNames ==
    MockNames \cup {DATABASE_SECRETS[e] : e \in Environments} \cup {"unknown/name"}

CallGetSecret(inst, name, reply) ==
    /\ pc = "idle"
    /\ op' = "secrets.get_secret"
    /\ env' = "prod"
    /\ attempt' = 0
    /\ outcomes' = <<>>
    /\ slept' = 0
    /\ query' = <<>>
    /\ database' = ""
    /\ log' = <<"secret">>
    /\ lookup' = Lookup(awsClient[inst], name, reply)
    /\ pc' = IF lookup'.raised THEN "raised" ELSE "returned"
    /\ result' = NoResult
    /\ UNCHANGED <<awsClient, agentVars, toolVars, ingestVars>>

----------------------------------------------------------------------------
(* The external clients: any sequence of calls, one at a time (the clients *)
(* share no state between calls).                                          *)

\* The caller (a route of external_apis/routes.py) takes the result, or the
\* exception, of the finished call; nothing of the call is kept.
Respond ==
    /\ pc \in {"returned", "raised"}
    /\ pc' = "idle"
    /\ op' = "none"
    /\ env' = "prod"
    /\ attempt' = 0
    /\ log' = <<>>
    /\ outcomes' = <<>>
    /\ slept' = 0
    /\ lookup' = NoLookup
    /\ query' = <<>>
    /\ database' = ""
    /\ result' = NoResult
    /\ UNCHANGED <<awsClient, agentVars, toolVars, ingestVars>>

\* AWSSecretsManager.__init__ (lines 25-33): self.client is a boto3 client,
\* or None when boto3.client raised.
ExtInit ==
    /\ awsClient \in [SecretsInstances -> BOOLEAN]
    /\ op = "none"
    /\ pc = "idle"
    /\ env = "prod"
    /\ attempt = 0
    /\ log = <<>>
    /\ outcomes = <<>>
    /\ slept = 0
    /\ lookup = NoLookup
    /\ query = <<>>
    /\ database = ""
    /\ result = NoResult

----------------------------------------------------------------------------
(* codebase_intelligence/retrieval/codebase_retriever.py *)

Repos == {"ccp-vap", "ccp-execute"}

\* The number of chunks in a persisted index of each repository.
VapChunks == 3
ExecuteChunks == 1

\* A retrieved Document: its repository, its rank in the repository's index
\* and whether its metadata has a 'source'.
Doc(r, n) == [repo |-> r, n |-> n, has_source |-> n % 2 = 1]

\* doc.metadata['source'] of a Document that has one: a file of its repository
Source(doc) == IF doc.repo = "ccp-vap" THEN "ccp-vap/File.java" ELSE "ccp-execute/File.java"

\* doc.page_content: the text of the chunk
PageContent(doc) == [chunk_of |-> doc.repo, chunk |-> doc.n]

Chunks(r) == IF r = "ccp-vap" THEN VapChunks ELSE ExecuteChunks

\* What can be at <vectorstore_dir>/<name>_vectorstore: nothing, a directory
\* FAISS.load_local fails on, or a saved index.
DiskStates == {"missing", "unloadable", "index"}

Absent == [loaded |-> FALSE, repo |-> "none", size |-> 0]

Index(r) == [loaded |-> TRUE, repo |-> r, size |-> Chunks(r)]

\* One `if os.path.exists(path): ... FAISS.load_local(...)` of _load_vectorstores
LoadOne(d, r) == IF d[r] = "index" THEN Index(r) ELSE Absent

\* _load_vectorstores (lines 55-80): both loads are in one try block, so an
\* exception of the first load leaves the second index unloaded.
load_vectorstores(d) ==
    IF d["ccp-vap"] = "unloadable"
    THEN [r \in Repos |-> Absent]
    ELSE [r \in Repos |-> LoadOne(d, r)]

Min(a, b) == IF a < b THEN a ELSE b

\* similarity_search(query, k) on a loaded index: the k best chunks in
\* descending similarity, fewer when the index is smaller. The ranking
\* depends on the query: query "q2" ranks the chunks in the opposite order.
similarity_search(ix, q, k) ==
    LET n == Min(k, ix.size)
    IN  [i \in 1..n |-> IF q = "q2" THEN Doc(ix.repo, ix.size + 1 - i) ELSE Doc(ix.repo, i)]

\* A failure inside a call: where it happened and the exception's text (for
\* a failed search, the repository searched).
Fault(at, what) == [at |-> at, what |-> what]

\* Variant: the similarity search is not wrapped in try/except.
retrieve_from_propagates(ix, q, k, fails) ==
    IF ~ix.loaded THEN [docs |-> <<>>, raised |-> FALSE, errors |-> {}]
    ELSE IF fails THEN [docs |-> <<>>, raised |-> TRUE, errors |-> {Fault("search", ix.repo)}]
    ELSE [docs |-> similarity_search(ix, q, k), raised |-> FALSE, errors |-> {}]

\* Variant: every chunk of the index is returned, whatever k is.
retrieve_from_allchunks(ix, q, k, fails) ==
    IF ~ix.loaded THEN [docs |-> <<>>, raised |-> FALSE, errors |-> {}]
    ELSE IF fails THEN [docs |-> <<>>, raised |-> FALSE, errors |-> {Fault("search", ix.repo)}]
    ELSE [docs |-> similarity_search(ix, q, ix.size), raised |-> FALSE, errors |-> {}]

\* retrieve_from_vap / retrieve_from_execute (lines 82-120) on the index ix
\* of the repository; fails: the similarity search raises. The result is the
\* list returned (docs), whether the call raised, and the repositories whose
\* search raised inside it (errors; the `except` prints them).
retrieve_from(ix, q, k, fails) ==
    IF ~ix.loaded THEN [docs |-> <<>>, raised |-> FALSE, errors |-> {}]
    ELSE IF fails THEN [docs |-> <<>>, raised |-> FALSE, errors |-> {Fault("search", ix.repo)}]
    ELSE [docs |-> similarity_search(ix, q, k), raised |-> FALSE, errors |-> {}]

\* A call retrieve_from_<repo>(query, k=k) made by retrieve_from_both
Asked(r, k) == [repo |-> r, k |-> k]

\* Variant: the first repository is asked for the rounded-up half of k.
retrieve_from_both_roundup(vs, q, k, failsVap, failsExecute) ==
    LET vap_docs == retrieve_from(vs["ccp-vap"], q, k - (k \div 2), failsVap)
        execute_docs == retrieve_from(vs["ccp-execute"], q, k \div 2, failsExecute)
    IN  [docs |-> vap_docs.docs \o execute_docs.docs,
         raised |-> vap_docs.raised \/ execute_docs.raised,
         errors |-> vap_docs.errors \cup execute_docs.errors,
         asked |-> <<Asked("ccp-vap", k - (k \div 2)), Asked("ccp-execute", k \div 2)>>]

\* retrieve_from_both (lines 122-135): the two calls it makes (asked) and the
\* concatenation of their results
retrieve_from_both(vs, q, k, failsVap, failsExecute) ==
    LET vap_docs == retrieve_from(vs["ccp-vap"], q, k \div 2, failsVap)
        execute_docs == retrieve_from(vs["ccp-execute"], q, k \div 2, failsExecute)
    IN  [docs |-> vap_docs.docs \o execute_docs.docs,
         raised |-> vap_docs.raised \/ execute_docs.raised,
         errors |-> vap_docs.errors \cup execute_docs.errors,
         asked |-> <<Asked("ccp-vap", k \div 2), Asked("ccp-execute", k \div 2)>>]

\* format_retrieved_docs (lines 155-174): the text, as the sequence of its
\* chunk blocks; the empty sequence is the empty string.
\* Variant: the chunk blocks are numbered from 0.
format_retrieved_docs_zerobased(docs) ==
    [i \in 1..Len(docs) |->
        [ordinal |-> i - 1,
         source |-> IF docs[i].has_source THEN Source(docs[i]) ELSE "Unknown",
         content |-> PageContent(docs[i])]]

format_retrieved_docs(docs) ==
    [i \in 1..Len(docs) |->
        [ordinal |-> i,
         source |-> IF docs[i].has_source THEN Source(docs[i]) ELSE "Unknown",
         content |-> PageContent(docs[i])]]

\* Variant: an exception of _load_vectorstores leaves the constructor.
CodebaseRetrieverInit_nocatch(d) ==
    IF \E r \in Repos : d[r] = "unloadable"
    THEN [vectorstores |-> [r \in Repos |-> Absent], raised |-> TRUE]
    ELSE [vectorstores |-> load_vectorstores(d), raised |-> FALSE]

\* CodebaseRetriever.__init__ (lines 34-53): the indexes it holds afterwards;
\* _load_vectorstores catches every exception of the loads (lines 79-80).
CodebaseRetrieverInit(d) == [vectorstores |-> load_vectorstores(d), raised |-> FALSE]

\* The largest k of a direct retriever call.
MaxK == 6

\* A direct call of a retriever method: its arguments (the repository of
\* retrieve_from_<repo>, the query, k, the repositories whose similarity search
\* raises) and its result (the documents or the formatted context, whether it
\* raised, the per-repository calls it made).
RCall(fn, repo, q, k, fails, docs, raised, asked, context) ==
    [fn |-> fn, repo |-> repo, query |-> q, k |-> k, fails |-> fails,
     docs |-> docs, raised |-> raised, asked |-> asked, context |-> context]

NoCall == RCall("none", "none", "", 0, {}, <<>>, FALSE, <<>>, <<>>)

\* retriever = CodebaseRetriever()
ConstructRetriever ==
    /\ retriever = "none"
    /\ LET c == CodebaseRetrieverInit(disk)
       IN  /\ vectorstores' = c.vectorstores
           /\ retriever' = IF c.raised THEN "raised" ELSE "constructed"
    /\ UNCHANGED <<extVars, ingestVars, rcall, disk, qpc, state, llm_input, trace, workflow, faults,
                   req>>

\* retriever.retrieve_from_vap(q, k) / retriever.retrieve_from_execute(q, k)
CallRetrieveFrom(r, q, k, fails) ==
    /\ retriever = "constructed"
    /\ LET res == retrieve_from(vectorstores[r], q, k, r \in fails)
       IN  rcall' = RCall("retrieve_from", r, q, k, fails, res.docs, res.raised, <<>>, <<>>)
    /\ UNCHANGED <<extVars, agentVars, ingestVars, retriever>>

\* retriever.retrieve_from_both(q, k)
CallRetrieveFromBoth(q, k, fails) ==
    /\ retriever = "constructed"
    /\ LET res == retrieve_from_both(vectorstores, q, k,
                                     "ccp-vap" \in fails, "ccp-execute" \in fails)
       IN  rcall' = RCall("retrieve_from_both", "both", q, k, fails,
                          res.docs, res.raised, res.asked, <<>>)
    /\ UNCHANGED <<extVars, agentVars, ingestVars, retriever>>

\* retriever.format_retrieved_docs(docs), docs being the result of the last
\* retrieval
CallFormat ==
    /\ retriever = "constructed"
    /\ rcall.fn \in {"retrieve_from", "retrieve_from_both"}
    /\ ~rcall.raised
    /\ rcall' = RCall("format_retrieved_docs", rcall.repo, rcall.query, rcall.k, rcall.fails,
                      rcall.docs, FALSE, <<>>, format_retrieved_docs(rcall.docs))
    /\ UNCHANGED <<extVars, agentVars, ingestVars, retriever>>

----------------------------------------------------------------------------
(* codebase_intelligence/embedding/codebase_embedder.py *)

\* A name (of a file or of a directory) is the sequence of its syllables; a
\* path is the sequence of its segments, each a name.

\* supported_extensions (line 38)
SUPPORTED_EXTENSIONS == {".java", ".md", ".txt"}

\* str.lower(), syllable by syllable
lower(name) ==
    [i \in 1..Len(name) |->
        CASE name[i] = "Te" -> "te"
          [] name[i] = "ST" -> "st"
          [] name[i] = "A" -> "a"
          [] name[i] = "B" -> "b"
          [] OTHER -> name[i]]

\* Variant: the name is searched for 'test' as it is, without lower().
is_test_file_or_directory_casesensitive(path) ==
    \E i \in 1..(Len(path) - 1) : path[i] = "te" /\ path[i + 1] = "st"

\* _is_test_file_or_directory (lines 64-75): 'test' in path.lower()
is_test_file_or_directory(path) ==
    LET path_lower == lower(path)
    IN  \E i \in 1..(Len(path) - 1) : path_lower[i] = "te" /\ path_lower[i + 1] = "st"

\* fname.endswith(self.supported_extensions) (line 99)
endswith(fname, exts) == fname # <<>> /\ fname[Len(fname)] \in exts

\* os.path.join(dirpath, fname) (line 100)
JoinPath(dirpath, fname) == Append(dirpath, fname)

\* f.read(): the text of the file at fpath
Text(fpath) == [text_of |-> fpath]

\* Variant: the metadata entry is appended before the file is opened.
ReadOne_metafirst(fpath, f, acc) ==
    IF f.readable
    THEN [docs |-> Append(acc.docs, Text(fpath)),
          metadatas |-> Append(acc.metadatas, [source |-> fpath])]
    ELSE [docs |-> acc.docs,
          metadatas |-> Append(acc.metadatas, [source |-> fpath])]

\* lines 101-106: the file is opened and read and both lists get an entry, or
\* open/read raises and the exception is printed
ReadOne(fpath, f, acc) ==
    IF f.readable
    THEN [docs |-> Append(acc.docs, Text(fpath)),
          metadatas |-> Append(acc.metadatas, [source |-> fpath])]
    ELSE acc

\* lines 94-106: the loop over the files of one directory
RECURSIVE ReadFiles(_, _, _)
ReadFiles(dirpath, filenames, acc) ==
    IF filenames = <<>> THEN acc
    ELSE LET f == Head(filenames)
             after == IF is_test_file_or_directory(f.name) THEN acc
                      ELSE IF endswith(f.name, SUPPORTED_EXTENSIONS)
                      THEN ReadOne(JoinPath(dirpath, f.name), f, acc)
                      ELSE acc
         IN  ReadFiles(dirpath, Tail(filenames), after)

\* lines 89-106: the loop over the directories os.walk yields
RECURSIVE WalkDirs(_, _)
WalkDirs(walk, acc) ==
    IF walk = <<>> THEN acc
    ELSE LET d == Head(walk)
             after == IF \E i \in 1..Len(d.dirpath) : is_test_file_or_directory(d.dirpath[i])
                      THEN acc
                      ELSE ReadFiles(d.dirpath, d.filenames, acc)
         IN  WalkDirs(Tail(walk), after)

\* A tree: the segments of root_dir, a directory d1 in it and a directory d2
\* in d1, with the files of each. os.walk yields every directory, top down,
\* with a dirpath that starts with root_dir.
os_walk(t) ==
    <<[dirpath |-> t.root, filenames |-> t.files0],
      [dirpath |-> Append(t.root, t.d1), filenames |-> t.files1],
      [dirpath |-> t.root \o <<t.d1, t.d2>>, filenames |-> t.files2]>>

\* load_code_files (lines 77-108)
load_code_files(t) == WalkDirs(os_walk(t), [docs |-> <<>>, metadatas |-> <<>>])

\* The most chunks the splitter makes of one document.
MaxChunks == 2

\* self.text_splitter.split_text(doc), when it makes n chunks
split_text(doc, n) == [j \in 1..n |-> [chunk_of |-> doc, part |-> j]]

\* lines 123-127: the loop over zip(docs, metadatas); counts[i] is the number
\* of chunks the splitter makes of document i
RECURSIVE SplitFrom(_, _, _, _, _)
SplitFrom(i, docs, metadatas, counts, acc) ==
    IF i > Min(Len(docs), Len(metadatas)) THEN acc
    ELSE SplitFrom(i + 1, docs, metadatas, counts,
            [chunks |-> acc.chunks \o split_text(docs[i], counts[i]),
             chunk_metas |-> acc.chunk_metas \o [j \in 1..counts[i] |-> metadatas[i]]])

\* split_documents (lines 110-129)
split_documents(docs, metadatas, counts) ==
    SplitFrom(1, docs, metadatas, counts, [chunks |-> <<>>, chunk_metas |-> <<>>])

\* The names tried: a directory is src, TeSTs or contest (d1) and main or
\* test (d2); the root is repo or latest/repo.
Roots == {<< <<"repo">> >>, << <<"la", "te", "st">>, <<"repo">> >>}

Dirs1 == {<<"src">>, <<"Te", "ST", "s">>, <<"con", "te", "st">>}

Dirs2 == {<<"main">>, <<"te", "st">>}

\* The file names tried: A.java, B.md, A.py and ATeST.md.
FileNames == {<<"A", ".java">>, <<"B", ".md">>, <<"A", ".py">>, <<"A", "Te", "ST", ".md">>}

\* A file: its name and whether it can be opened and read.
Files ==
    {f \in [name : FileNames, readable : BOOLEAN] :
        ~f.readable => f.name \in {<<"A", ".java">>, <<"B", ".md">>}}

\* Two files in root_dir, one in d1, one in d2.
Trees ==
    {t \in [root : Roots, d1 : Dirs1, d2 : Dirs2,
            files0 : {<<f, g>> : f \in Files, g \in Files},
            files1 : {<<f>> : f \in Files},
            files2 : {<<f>> : f \in Files}] :
        t.files0[1].name # t.files0[2].name}

NoTree == [root |-> <<>>, d1 |-> <<>>, d2 |-> <<>>,
           files0 |-> <<>>, files1 |-> <<>>, files2 |-> <<>>]

NotLoaded == [done |-> FALSE, docs |-> <<>>, metadatas |-> <<>>]

NotChunked == [done |-> FALSE, chunks |-> <<>>, chunk_metas |-> <<>>]

\* docs, metadatas = self.load_code_files(path)
LoadCodeFiles ==
    /\ ~loaded.done
    /\ LET r == load_code_files(tree)
       IN  loaded' = [done |-> TRUE, docs |-> r.docs, metadatas |-> r.metadatas]
    /\ UNCHANGED <<extVars, agentVars, toolVars, tree, chunked, ecall>>

\* chunks, chunk_metas = self.split_documents(docs, metadatas)
SplitDocuments(counts) ==
    /\ loaded.done
    /\ ~chunked.done
    /\ LET r == split_documents(loaded.docs, loaded.metadatas, counts)
       IN  chunked' = [done |-> TRUE, chunks |-> r.chunks, chunk_metas |-> r.chunk_metas]
    /\ UNCHANGED <<extVars, agentVars, toolVars, tree, loaded, ecall>>

\* The default of output_dir (line 131) and of CodebaseRetriever's
\* vectorstore_dir (codebase_retriever.py line 34)
VECTORSTORE_DIR == "codebase_intelligence/vectorstores"

\* The output directories tried: the default and another one.
OutputDirs == {VECTORSTORE_DIR, "elsewhere"}

\* A location, as the parts os.path.join and the f-string put together.
NoPath == <<>>

\* Variant: the index is saved in the working directory, whatever output_dir is.
VectorstorePath_cwd(output_dir, name) == <<".", name, "_vectorstore">>

\* line 155: os.path.join(output_dir, f"{name}_vectorstore")
VectorstorePath(output_dir, name) == <<output_dir, name, "_vectorstore">>

\* codebase_retriever.py lines 58 and 69: the location CodebaseRetriever loads
\* for a repository, os.path.join(self.vectorstore_dir, "ccp-vap_vectorstore")
\* and os.path.join(self.vectorstore_dir, "ccp-execute_vectorstore")
RetrieverPath(vectorstore_dir, r) ==
    IF r = "ccp-vap"
    THEN <<vectorstore_dir, "ccp-vap", "_vectorstore">>
    ELSE <<vectorstore_dir, "ccp-execute", "_vectorstore">>

\* vectorstore.save_local(p): an index is at p afterwards, in place of what
\* was there. d tells what is at the locations a default CodebaseRetriever
\* loads; other locations are not tracked.
save_local(d, p) ==
    [r \in Repos |-> IF RetrieverPath(VECTORSTORE_DIR, r) = p THEN "index" ELSE d[r]]

\* What FAISS.from_texts does: it returns a vectorstore, or the embedding call
\* or the index construction raises.
EmbeddingOutcomes == {"ok", "raises"}

\* Variant: the location is written before the chunks are embedded, so a
\* failed embedding leaves a directory without a usable index.
EmbedAndSave_savefirst(d, p, outcome) ==
    IF outcome = "raises"
    THEN [disk |-> [r \in Repos |->
                        IF RetrieverPath(VECTORSTORE_DIR, r) = p THEN "unloadable" ELSE d[r]],
          raised |-> TRUE, path |-> NoPath]
    ELSE [disk |-> save_local(d, p), raised |-> FALSE, path |-> p]

\* lines 151-159: FAISS.from_texts, then save_local at p; an exception of
\* from_texts is not caught and leaves embed_codebase before save_local
EmbedAndSave(d, p, outcome) ==
    IF outcome = "raises"
    THEN [disk |-> d, raised |-> TRUE, path |-> NoPath]
    ELSE [disk |-> save_local(d, p), raised |-> FALSE, path |-> p]

\* An embed_codebase call: its arguments, the outcome of FAISS.from_texts in
\* it, whether it raised, the location it returned, and what was persisted
\* and whether a retriever was constructed when it began.
ECall(called, name, output_dir, embedding, raised, path, before, retriever_before) ==
    [called |-> called, name |-> name, output_dir |-> output_dir, embedding |-> embedding,
     raised |-> raised, path |-> path, before |-> before,
     retriever_before |-> retriever_before]

NoBuild == ECall(FALSE, "", "", "ok", FALSE, NoPath, [r \in Repos |-> "missing"], "none")

\* The trees given to embed_codebase: root repo with directories src and
\* src/test, readable files, and A.java or ATeST.md next to B.md.
BuildTrees ==
    [root : {<< <<"repo">> >>}, d1 : {<<"src">>}, d2 : {<<"te", "st">>},
     files0 : {<<[name |-> n, readable |-> TRUE], [name |-> <<"B", ".md">>, readable |-> TRUE]>> :
                    n \in {<<"A", ".java">>, <<"A", "Te", "ST", ".md">>}},
     files1 : {<<[name |-> <<"A", ".java">>, readable |-> TRUE]>>},
     files2 : {<<[name |-> <<"A", ".java">>, readable |-> TRUE]>>}]

\* embed_codebase(name, path, output_dir) (lines 131-159), path being the root
\* of tree t; counts and outcome are what the splitter and FAISS.from_texts do
EmbedCodebase(name, t, output_dir, counts, outcome) ==
    LET l == load_code_files(t)
        c == split_documents(l.docs, l.metadatas, counts)
        s == EmbedAndSave(disk, VectorstorePath(output_dir, name), outcome)
    IN  /\ tree' = t
        /\ loaded' = [done |-> TRUE, docs |-> l.docs, metadatas |-> l.metadatas]
        /\ chunked' = [done |-> TRUE, chunks |-> c.chunks, chunk_metas |-> c.chunk_metas]
        /\ disk' = s.disk
        /\ ecall' = ECall(TRUE, name, output_dir, outcome, s.raised, s.path, disk, retriever)
        /\ UNCHANGED <<extVars, toolVars, vectorstores, qpc, state, llm_input, trace,
                       workflow, faults, req>>

\* No tree being loaded.
IngestQuiet ==
    /\ tree = NoTree
    /\ loaded = NotLoaded
    /\ chunked = NotChunked
    /\ ecall = NoBuild

\* A CodebaseEmbedder given some tree.
EmbedderStart ==
    /\ tree \in Trees
    /\ loaded = NotLoaded
    /\ chunked = NotChunked
    /\ ecall = NoBuild

----------------------------------------------------------------------------
(* codebase_intelligence/orchestration/codebase_agent.py *)

QueryIds == {"a", "b"}

\* The query text of each call (two different texts).
QueryText == [q \in QueryIds |-> IF q = "a" THEN "q1" ELSE "q2"]

\* Selector values: the three documented ones and a misspelt one.
Selectors == {"ccp-vap", "ccp-execute", "both", "CCP-VAP"}

NoContext == <<>>

HumanMessage(kind, text, context) ==
    [role |-> "user", kind |-> kind, text |-> text, context |-> context]

SystemMessage == [role |-> "system", kind |-> "system_prompt", text |-> "", context |-> NoContext]

NoResponse == [none |-> TRUE, text |-> <<>>]

\* A response string, as the sequence of its parts.
Str(parts) == [none |-> FALSE, text |-> parts]

AgentState(messages, query_text, codebase, retrieved_docs, response) ==
    [messages |-> messages, query |-> query_text, codebase |-> codebase,
     retrieved_docs |-> retrieved_docs, response |-> response]

NoState == AgentState(<<>>, "", "", <<>>, NoResponse)

\* _build_workflow (lines 96-109): the entry point and the edges
EntryPoint == "retrieve_code"

\* Variant: an edge from generate_response back to retrieve_code.
NextNode_cycle(node) ==
    CASE node = "retrieve_code" -> "generate_response"
      [] node = "generate_response" -> "retrieve_code"

NextNode(node) ==
    CASE node = "retrieve_code" -> "generate_response"
      [] node = "generate_response" -> "END"

\* A request without a codebase field.
Unset == "<unset>"

\* main.py lines 14-16 and query_codebase line 176: the default of codebase
RequestCodebase(field) == IF field = Unset THEN "both" ELSE field

\* The values of the codebase field tried.
Fields == Selectors \cup {Unset}

\* The codebase field of a request and the retriever searches made for it.
Request(field, asked) == [codebase |-> field, asked |-> asked]

NoRequest == Request("", <<>>)

\* query_codebase (lines 188-197): the initial state, and the workflow entered
StartQuery(q, field) ==
    /\ qpc[q] = "idle"
    /\ state' = [state EXCEPT ![q] =
            AgentState(<<HumanMessage("query", QueryText[q], NoContext)>>,
                       QueryText[q], RequestCodebase(field), <<>>, NoResponse)]
    /\ qpc' = [qpc EXCEPT ![q] = EntryPoint]
    /\ trace' = [trace EXCEPT ![q] = <<>>]
    /\ llm_input' = [llm_input EXCEPT ![q] = <<>>]
    /\ faults' = [faults EXCEPT ![q] = {}]
    /\ req' = [req EXCEPT ![q] = Request(field, <<>>)]
    /\ UNCHANGED <<extVars, toolVars, ingestVars, disk, vectorstores, workflow>>

\* The result of retrieve_from_<repo>(query, k=k) called by the node itself
Single(r, k, res) ==
    [docs |-> res.docs, raised |-> res.raised, errors |-> res.errors,
     asked |-> <<Asked(r, k)>>]

\* Variant: the selector is compared without regard to letter case.
Retrieve_anycase(codebase, q, failsVap, failsExecute) ==
    IF codebase \in {"ccp-vap", "CCP-VAP"}
    THEN Single("ccp-vap", 5, retrieve_from(vectorstores["ccp-vap"], q, 5, failsVap))
    ELSE IF codebase = "ccp-execute"
    THEN Single("ccp-execute", 5,
                retrieve_from(vectorstores["ccp-execute"], q, 5, failsExecute))
    ELSE retrieve_from_both(vectorstores, q, 5, failsVap, failsExecute)

\* lines 128-133
Retrieve(codebase, q, failsVap, failsExecute) ==
    IF codebase = "ccp-vap"
    THEN Single("ccp-vap", 5, retrieve_from(vectorstores["ccp-vap"], q, 5, failsVap))
    ELSE IF codebase = "ccp-execute"
    THEN Single("ccp-execute", 5,
                retrieve_from(vectorstores["ccp-execute"], q, 5, failsExecute))
    ELSE retrieve_from_both(vectorstores, q, 5, failsVap, failsExecute)

\* Variant: the context message is appended without the `if context` test.
AddContext_always(messages, context) ==
    Append(messages, HumanMessage("context", "", context))

\* lines 141-144
AddContext(messages, context) ==
    IF context # <<>>
    THEN Append(messages, HumanMessage("context", "", context))
    ELSE messages

\* _retrieve_code_node (lines 111-146)
RetrieveCodeNode(q, failsVap, failsExecute) ==
    /\ qpc[q] = "retrieve_code"
    /\ LET r == Retrieve(state[q].codebase, state[q].query, failsVap, failsExecute)
           context == format_retrieved_docs(r.docs)
       IN
       /\ IF r.raised
           THEN /\ qpc' = [qpc EXCEPT ![q] = "raised"]
                /\ UNCHANGED state
           ELSE /\ qpc' = [qpc EXCEPT ![q] = NextNode("retrieve_code")]
                /\ state' = [state EXCEPT ![q].retrieved_docs = r.docs,
                                          ![q].messages = AddContext(@, context)]
       /\ faults' = [faults EXCEPT ![q] = @ \cup r.errors]
       /\ req' = [req EXCEPT ![q].asked = r.asked]
    /\ trace' = [trace EXCEPT ![q] = Append(@, "retrieve_code")]
    /\ UNCHANGED <<extVars, toolVars, ingestVars, disk, vectorstores, workflow, llm_input>>

\* What llm.invoke does: a message with content, or an exception.
LlmOutcomes ==
    [kind : {"content"}, text : {"answer", ""}]
    \cup [kind : {"exception"}, text : {"timeout", "connection", "malformed"}]

\* Variant: the stored string does not include str(e).
Generate_notext(o) ==
    IF o.kind = "content"
    THEN [response |-> Str(<<o.text>>), raised |-> FALSE]
    ELSE [response |->
            Str(<<"Sorry, I encountered an ", "error", " while generating the response: ">>),
          raised |-> FALSE]

\* Variant: llm.invoke is not wrapped in try/except.
Generate_propagates(o) ==
    IF o.kind = "content"
    THEN [response |-> Str(<<o.text>>), raised |-> FALSE]
    ELSE [response |-> NoResponse, raised |-> TRUE]

\* lines 163-172: the response stored for the outcome o of llm.invoke
Generate(o) ==
    IF o.kind = "content"
    THEN [response |-> Str(<<o.text>>), raised |-> FALSE]
    ELSE [response |->
            Str(<<"Sorry, I encountered an ", "error", " while generating the response: ",
                  o.text>>),
          raised |-> FALSE]

\* Variant: the messages of every call in progress are given to the model.
LlmMessages_shared(messages) ==
    <<SystemMessage>> \o state["a"].messages \o state["b"].messages

\* line 159: the messages given to llm.invoke
LlmMessages(messages) == <<SystemMessage>> \o messages

\* agent/langgraph_workflow.py line 94: the messages that module's
\* _generate_response_node gives to llm.invoke
LegacyLlmMessages(messages) == messages

\* The modules that define a CodebaseAgent.
Workflows == {"codebase_agent", "langgraph_workflow"}

\* _generate_response_node (lines 148-174; agent/langgraph_workflow.py lines 92-109)
GenerateResponseNode(q, o) ==
    /\ qpc[q] = "generate_response"
    /\ llm_input' = [llm_input EXCEPT ![q] =
            IF workflow = "codebase_agent"
            THEN LlmMessages(state[q].messages)
            ELSE LegacyLlmMessages(state[q].messages)]
    /\ faults' = [faults EXCEPT ![q] = IF o.kind = "exception" THEN @ \cup {Fault("llm", o.text)} ELSE @]
    /\ UNCHANGED req
    /\ LET g == Generate(o)
       IN  /\ state' = [state EXCEPT ![q].response = g.response]
           /\ qpc' = [qpc EXCEPT ![q] =
                        IF g.raised THEN "raised" ELSE NextNode("generate_response")]
    /\ trace' = [trace EXCEPT ![q] = @ \o <<"generate_response", "llm.invoke">>]
    /\ UNCHANGED <<extVars, toolVars, ingestVars, disk, vectorstores, workflow>>

\* main.py lines 27-33: what /codebase-query answers for a call at its end
HttpReply(q) ==
    IF qpc[q] = "raised"
    THEN [status_code |-> 500, response |-> NoResponse]
    ELSE [status_code |-> 200, response |-> state[q].response]

\* query_codebase line 199 and main.py lines 29-33: the response is returned
\* (or the exception becomes an HTTP 500) and the state of the call is dropped.
ReturnResponse(q) ==
    /\ qpc[q] \in {"END", "raised"}
    /\ qpc' = [qpc EXCEPT ![q] = "idle"]
    /\ state' = [state EXCEPT ![q] = NoState]
    /\ trace' = [trace EXCEPT ![q] = <<>>]
    /\ llm_input' = [llm_input EXCEPT ![q] = <<>>]
    /\ faults' = [faults EXCEPT ![q] = {}]
    /\ req' = [req EXCEPT ![q] = NoRequest]
    /\ UNCHANGED <<extVars, toolVars, ingestVars, disk, vectorstores, workflow>>

----------------------------------------------------------------------------
(* The two parts of the service, each with the other at rest.              *)

\* No index persisted, no retriever index, no query.
AgentQuiet ==
    /\ disk = [r \in Repos |-> "missing"]
    /\ vectorstores = [r \in Repos |-> Absent]
    /\ qpc = [q \in QueryIds |-> "idle"]
    /\ state = [q \in QueryIds |-> NoState]
    /\ llm_input = [q \in QueryIds |-> <<>>]
    /\ trace = [q \in QueryIds |-> <<>>]
    /\ workflow = "codebase_agent"
    /\ faults = [q \in QueryIds |-> {}]
    /\ req = [q \in QueryIds |-> NoRequest]
    /\ retriever = "none"
    /\ rcall = NoCall

\* CodebaseAgent.__init__ / CodebaseRetriever.__init__: the indexes are loaded
\* from what is persisted.
AgentConstructed ==
    /\ disk \in [Repos -> DiskStates]
    /\ vectorstores = load_vectorstores(disk)
    /\ qpc = [q \in QueryIds |-> "idle"]
    /\ state = [q \in QueryIds |-> NoState]
    /\ llm_input = [q \in QueryIds |-> <<>>]
    /\ trace = [q \in QueryIds |-> <<>>]
    /\ workflow \in Workflows
    /\ faults = [q \in QueryIds |-> {}]
    /\ req = [q \in QueryIds |-> NoRequest]
    /\ retriever = "constructed"
    /\ rcall = NoCall

\* Before CodebaseRetriever(): some state of the vectorstore directory, no
\* index held, no query.
RetrieverUnconstructed ==
    /\ disk \in [Repos -> DiskStates]
    /\ vectorstores = [r \in Repos |-> Absent]
    /\ qpc = [q \in QueryIds |-> "idle"]
    /\ state = [q \in QueryIds |-> NoState]
    /\ llm_input = [q \in QueryIds |-> <<>>]
    /\ trace = [q \in QueryIds |-> <<>>]
    /\ workflow = "codebase_agent"
    /\ faults = [q \in QueryIds |-> {}]
    /\ req = [q \in QueryIds |-> NoRequest]
    /\ retriever = "none"
    /\ rcall = NoCall

ExtQuiet ==
    /\ awsClient = [i \in SecretsInstances |-> FALSE]
    /\ op = "none"
    /\ pc = "idle"
    /\ env = "prod"
    /\ attempt = 0
    /\ log = <<>>
    /\ outcomes = <<>>
    /\ slept = 0
    /\ lookup = NoLookup
    /\ query = <<>>
    /\ database = ""
    /\ result = NoResult

Init == ExtInit /\ AgentQuiet /\ IngestQuiet

Next ==
    \/ \E o \in ExecutorOps, e \in Environments : CallExecutor(o, e)
    \/ \E t \in Transport : MakeRequestAttempt(t)
    \/ MakeRequestSleep
    \/ \E o \in DatabricksOps, e \in Environments, reply \in StoreReplies, h \in BOOLEAN :
            CallDatabricks(o, e, reply, h)
    \/ \E t \in Transport : DatabricksAttempt(t)
    \/ \E q \in Queries, e \in Environments, reply \in StoreReplies : CallExecuteQuery(q, e, reply)
    \/ \E o \in DbOutcomes : DatabaseConnect(o)
    \/ \E inst \in SecretsInstances, name \in SecretNames, reply \in StoreReplies :
            CallGetSecret(inst, name, reply)
    \/ Respond

Spec == Init /\ [][Next]_vars

AgentInit == ExtQuiet /\ AgentConstructed /\ IngestQuiet

AgentNext ==
    \/ \E q \in QueryIds, c \in Fields : StartQuery(q, c)
    \/ \E q \in QueryIds, fv \in BOOLEAN, fe \in BOOLEAN : RetrieveCodeNode(q, fv, fe)
    \/ \E q \in QueryIds, o \in LlmOutcomes : GenerateResponseNode(q, o)
    \/ \E q \in QueryIds : ReturnResponse(q)

AgentSpec == AgentInit /\ [][AgentNext]_vars

\* LangGraph runs the nodes of an invoked workflow one after the other, and
\* each node returns or raises: no query stays at a node for ever.
AgentFairSpec ==
    /\ AgentSpec
    /\ \A q \in QueryIds :
        /\ WF_vars(\E fv \in BOOLEAN, fe \in BOOLEAN : RetrieveCodeNode(q, fv, fe))
        /\ WF_vars(\E o \in LlmOutcomes : GenerateResponseNode(q, o))

\* The retriever used directly: constructed over some state of the
\* vectorstore directory, then its methods called with any query, any k up to
\* MaxK and any search failures.
RetrieverInit == ExtQuiet /\ RetrieverUnconstructed /\ IngestQuiet

RetrieverNext ==
    \/ ConstructRetriever
    \/ \E r \in Repos, q \in {"q1", "q2"}, k \in 0..MaxK, fails \in SUBSET Repos :
            CallRetrieveFrom(r, q, k, fails)
    \/ \E q \in {"q1", "q2"}, k \in 0..MaxK, fails \in SUBSET Repos :
            CallRetrieveFromBoth(q, k, fails)
    \/ CallFormat

RetrieverSpec == RetrieverInit /\ [][RetrieverNext]_vars

\* The embedder's loading and splitting of one tree, with any numbers of
\* chunks per document up to MaxChunks.
EmbedderInit == ExtQuiet /\ AgentQuiet /\ EmbedderStart

EmbedderNext ==
    \/ LoadCodeFiles
    \/ \E counts \in [1..Len(loaded.docs) -> 0..MaxChunks] : SplitDocuments(counts)

EmbedderSpec == EmbedderInit /\ [][EmbedderNext]_vars

\* Builds and loads: embed_codebase called for either repository, any number
\* of times, over some state of the vectorstore directory (the splitter
\* making the same number of chunks of every document of a call), and a
\* CodebaseRetriever constructed at some point.
BuildInit == ExtQuiet /\ RetrieverUnconstructed /\ IngestQuiet

BuildNext ==
    \/ \E name \in Repos, t \in BuildTrees, dir \in OutputDirs, outcome \in EmbeddingOutcomes :
        \E n \in 0..MaxChunks :
            EmbedCodebase(name, t, dir, [i \in 1..Len(load_code_files(t).docs) |-> n], outcome)
    \/ ConstructRetriever

BuildSpec == BuildInit /\ [][BuildNext]_vars

----------------------------------------------------------------------------
(* Properties of _make_request (specification Spec)                        *)

InExecutor == op \in ExecutorOps

AllTimeouts == \A i \in 1..Len(outcomes) : outcomes[i].kind = "timeout"

\* http, sleep, http, ..., http: a sleep between two attempts and nowhere else
Alternates(l) ==
    \A i \in 1..Len(l) : l[i] = IF i % 2 = 1 THEN "http" ELSE "sleep"

\* C1: when every attempt of _make_request times out, the call makes exactly
\* MAX_RETRIES attempts and exactly MAX_RETRIES - 1 sleeps of RETRY_DELAY, each
\* sleep between two attempts, and returns a failed response with status 408.
C1_AllTimeoutsGive408 ==
    (InExecutor /\ pc = "returned" /\ AllTimeouts) =>
        /\ Len(outcomes) = MAX_RETRIES
        /\ Len(log) = 2 * MAX_RETRIES - 1
        /\ Alternates(log)
        /\ slept = (MAX_RETRIES - 1) * RETRY_DELAY
        /\ ~result.success
        /\ result.status_code = 408

C1_Witness ==
    /\ InExecutor /\ pc = "returned" /\ AllTimeouts
    /\ Len(outcomes) = MAX_RETRIES
    /\ result.status_code = 408

Non2xx(t) == t.kind = "response" /\ ~(t.status >= 200 /\ t.status <= 299)

\* C2: an attempt of _make_request that receives a non-2xx status is the last
\* event of the call: the call has returned a failed response whose status is
\* the received one and whose error text embeds the body, with no attempt and
\* no sleep after it.
C2_Non2xxReturnsAtOnce ==
    InExecutor =>
        \A i \in 1..Len(outcomes) :
            Non2xx(outcomes[i]) =>
                /\ i = Len(outcomes)
                /\ log[Len(log)] = "http"
                /\ pc = "returned"
                /\ ~result.success
                /\ result.status_code = outcomes[i].status
                /\ result.error.kind = "HTTP"
                /\ result.error.text = outcomes[i].body

C2_Witness ==
    /\ InExecutor /\ pc = "returned"
    /\ Len(outcomes) = 2
    /\ outcomes[1].kind = "timeout"
    /\ outcomes[2].kind = "response" /\ outcomes[2].status = 404
    /\ result.status_code = 404

\* An attempt on which an exception other than a timeout is raised: by the
\* transport, or by parsing or wrapping the body of a 200 response.
OtherException(t) ==
    \/ t.kind = "error"
    \/ t.kind = "response" /\ t.status = 200 /\ ~BodyWraps(t.body)

\* C3: an attempt of _make_request that raises anything but a timeout is the
\* last event of the call: the call has returned a failed response with status
\* 500 carrying the exception text, with no attempt and no sleep after it.
C3_OtherExceptionReturns500 ==
    InExecutor =>
        \A i \in 1..Len(outcomes) :
            OtherException(outcomes[i]) =>
                /\ i = Len(outcomes)
                /\ log[Len(log)] = "http"
                /\ pc = "returned"
                /\ ~result.success
                /\ result.status_code = 500
                /\ result.error.kind = "Request failed"
                /\ result.error.text = outcomes[i].body

C3_Witness ==
    /\ InExecutor /\ pc = "returned"
    /\ Len(outcomes) = 2
    /\ outcomes[2].kind = "response" /\ outcomes[2].status = 200
    /\ outcomes[2].body = "not_json"
    /\ result.status_code = 500

\* C4: whatever the transport does, _make_request makes at most MAX_RETRIES
\* attempts, every step it waits at can be taken, the number of its steps is
\* bounded, no exception leaves it, and it ends by returning an APIResponse.
C4_AlwaysReturnsResponse ==
    InExecutor =>
        /\ Len(outcomes) <= MAX_RETRIES
        /\ Len(log) <= 2 * MAX_RETRIES - 1
        /\ pc \in {"request", "sleep", "returned"}
        /\ pc = "request" => attempt < MAX_RETRIES
        /\ pc = "returned" =>
              /\ result # NoResult
              /\ result.status_code \in Statuses \cup {408}
              /\ result.success <=> result.error = NoError

C4_Witness ==
    /\ InExecutor /\ pc = "returned"
    /\ Len(outcomes) = MAX_RETRIES
    /\ outcomes[MAX_RETRIES].kind = "error"
    /\ result.status_code = 500

----------------------------------------------------------------------------
(* Properties of the clients and of the secret provider (specification Spec) *)

\* The operations that make an outbound HTTP call
HttpOps == ExecutorOps \cup DatabricksOps

\* C5: in every client, an outbound call whose every attempt timed out was
\* attempted MAX_RETRIES times, with RETRY_DELAY slept between the attempts,
\* and ended with status 408.
C5_EveryClientRetriesTimeouts ==
    (op \in HttpOps /\ pc = "returned" /\ outcomes # <<>> /\ AllTimeouts) =>
        /\ Len(outcomes) = MAX_RETRIES
        /\ slept = (MAX_RETRIES - 1) * RETRY_DELAY
        /\ result.status_code = 408

\* The value get_secret is to return according to its contract, for a lookup l
\* made on an instance with (hasClient) or without a store client.
StoreGaveSecret(l) == l.reply.kind = "secret_string"

Fallback(name) == IF name \in MockNames THEN mock_secrets[name] ELSE None

\* C6 (as amended): get_secret never raises; it returns the store's parsed
\* secret when the store call succeeds with a secret string that parses;
\* otherwise the entry of the fallback table for the same name, and None when
\* the table has no such entry; the fallback table is not consulted when the
\* store returned a secret string that parses.
C6_SecretOrFallback ==
    lookup.made =>
        /\ ~lookup.raised
        /\ StoreGaveSecret(lookup) => (lookup.value = lookup.reply.value /\ ~lookup.mock)
        /\ ~StoreGaveSecret(lookup) => (lookup.value = Fallback(lookup.name) /\ lookup.mock)
        /\ (~StoreGaveSecret(lookup) /\ lookup.name \notin MockNames) => lookup.value.none

C6_Witness ==
    /\ op = "secrets.get_secret"
    /\ lookup.made
    /\ lookup.reply.kind = "client_error"
    /\ lookup.name = "databricks/qa/sp_ccp"
    /\ lookup.value = mock_secrets["databricks/qa/sp_ccp"]

\* C6 (as stated): the same, with the fallback table never consulted when the
\* store returned a secret string, whether or not the string parses.
C6_Original ==
    lookup.made =>
        /\ ~lookup.raised
        /\ StoreGaveSecret(lookup) => lookup.value = lookup.reply.value
        /\ ~StoreGaveSecret(lookup) => lookup.value = Fallback(lookup.name)
        /\ lookup.reply.kind \in {"secret_string", "invalid_secret_string"} => ~lookup.mock

CredentialOps == DatabricksOps \cup {"database.execute_query"}

\* The lookup of the current call gave no credentials: None after the
\* fallback or, for the Databricks operations, a map without db_host or token.
NoCredentials ==
    /\ op \in CredentialOps
    /\ lookup.made
    /\ \/ lookup.value.none
       \/ op \in DatabricksOps /\ ~({"db_host", "token"} \subseteq lookup.value.keys)

\* C7: a client operation whose credential lookup gave no credentials has
\* returned a failure-shaped result (success false, an error text) without
\* raising, and has made no HTTP request and no database connection.
C7_NoCredentialsNoCall ==
    NoCredentials =>
        /\ pc = "returned"
        /\ ~result.success
        /\ result.error # NoError
        /\ \A i \in 1..Len(log) : log[i] = "secret"
        /\ outcomes = <<>>

C7_Witness ==
    /\ op = "database.execute_query"
    /\ NoCredentials
    /\ lookup.mock
    /\ lookup.reply.kind = "not_found"
    /\ pc = "returned"

----------------------------------------------------------------------------
(* Properties of the workflow (specifications AgentSpec, AgentFairSpec)    *)

OnePass == <<"retrieve_code", "generate_response", "llm.invoke">>

IsPrefix(a, b) == Len(a) <= Len(b) /\ \A i \in 1..Len(a) : a[i] = b[i]

\* C8: a query_codebase call runs the retrieve node once, then the generate
\* node once with one invocation of the language model, then ends: what it has
\* run so far is always a prefix of that one pass, generation is entered only
\* after the retrieve node has run, and at the end the pass is complete.
C8_OnePassPerQuery ==
    \A q \in QueryIds :
        /\ IsPrefix(trace[q], OnePass)
        /\ qpc[q] = "generate_response" => trace[q] = <<"retrieve_code">>
        /\ qpc[q] = "END" => trace[q] = OnePass
        /\ qpc[q] # "raised"

C8_Witness ==
    \E q \in QueryIds :
        /\ qpc[q] = "END"
        /\ trace[q] = OnePass
        /\ Len(state[q].response.text) = 4
        /\ state[q].response.text[2] = "error"

\* C9: every query that enters the retrieve step reaches the end of the
\* workflow, whatever retrieval and the language model do, and at the end the
\* stored response is a string.
C9_EveryQueryReachesDone ==
    \A q \in QueryIds :
        /\ (qpc[q] = "retrieve_code") ~> (qpc[q] = "END")
        /\ [](qpc[q] = "END" => ~state[q].response.none)

C9_Witness ==
    \E q \in QueryIds :
        /\ qpc[q] = "END"
        /\ state[q].codebase = "both"
        /\ \A r \in Repos : ~vectorstores[r].loaded
        /\ state[q].retrieved_docs = <<>>
        /\ ~state[q].response.none
        /\ llm_input[q][Len(llm_input[q])].kind = "query"

QueryMessage(q) == HumanMessage("query", QueryText[q], NoContext)

\* C10: the message sequence of a query starts as the single user message
\* holding the raw query; after the retrieve step it is that message followed
\* by exactly one user message holding the formatted context when at least one
\* chunk was retrieved, and still the single query message when none was.
C10_MessagesAfterRetrieve ==
    \A q \in QueryIds :
        /\ qpc[q] = "retrieve_code" => state[q].messages = <<QueryMessage(q)>>
        /\ qpc[q] \in {"generate_response", "END"} =>
              IF Len(state[q].retrieved_docs) >= 1
              THEN /\ Len(state[q].messages) = 2
                   /\ state[q].messages[1] = QueryMessage(q)
                   /\ state[q].messages[2].role = "user"
                   /\ state[q].messages[2].kind = "context"
                   /\ state[q].messages[2].context =
                          format_retrieved_docs(state[q].retrieved_docs)
              ELSE state[q].messages = <<QueryMessage(q)>>

C10_Witness ==
    /\ qpc["a"] = "generate_response"
    /\ Len(state["a"].retrieved_docs) = 2
    /\ Len(state["a"].messages) = 2
    /\ qpc["b"] = "generate_response"
    /\ state["b"].retrieved_docs = <<>>
    /\ Len(state["b"].messages) = 1

\* The number of system-role messages in a message sequence.
SystemCount(ms) == Cardinality({i \in 1..Len(ms) : ms[i].role = "system"})

\* The generate step of call q has invoked the model.
Invoked(q) == \E i \in 1..Len(trace[q]) : trace[q][i] = "llm.invoke"

\* C11: whenever the generate step has invoked the language model, the
\* sequence it passed starts with the fixed system-role instruction, continues
\* with the accumulated turn sequence in its original order, and holds exactly
\* one system-role message.
C11_SystemMessageFirst ==
    \A q \in QueryIds :
        Invoked(q) =>
            /\ Len(llm_input[q]) >= 1
            /\ llm_input[q][1] = SystemMessage
            /\ Tail(llm_input[q]) = state[q].messages
            /\ SystemCount(llm_input[q]) = 1

\* The string s has the part p.
Contains(s, p) == \E i \in 1..Len(s.text) : s.text[i] = p

LlmFaults(q) == {f \in faults[q] : f.at = "llm"}

SearchFaults(q) == {f \in faults[q] : f.at = "search"}

\* C12: when the model invocation of a call failed, the generate step did not
\* raise: the call is at END with a response string that embeds the text of
\* the error and contains the literal "error", and that string is what
\* the call returns.
C12_LlmFailureBecomesResponse ==
    \A q \in QueryIds : \A f \in LlmFaults(q) :
        /\ qpc[q] = "END"
        /\ ~state[q].response.none
        /\ Contains(state[q].response, "error")
        /\ Contains(state[q].response, f.what)
        /\ HttpReply(q).response = state[q].response

C12_Witness ==
    \E q \in QueryIds :
        /\ Fault("llm", "malformed") \in faults[q]
        /\ qpc[q] = "END"
        /\ Contains(state[q].response, "malformed")

\* A call of the served agent is at its end, with a failure inside it.
EndedWithFault(q) ==
    /\ workflow = "codebase_agent"
    /\ qpc[q] \in {"END", "raised"}
    /\ faults[q] # {}

\* C13 as stated: a call of /codebase-query in which retrieval or generation
\* failed is answered 200 with the error message in the answer text.
C13_Original ==
    \A q \in QueryIds :
        EndedWithFault(q) =>
            /\ HttpReply(q).status_code = 200
            /\ Contains(HttpReply(q).response, "error")

\* C13: a call of /codebase-query in which retrieval or generation failed is
\* answered 200, never 500; the answer text carries the error message when
\* the generation failed, and is the model's own reply, without an error
\* message, when only a retrieval failed.
C13_FailuresAnswer200 ==
    \A q \in QueryIds :
        EndedWithFault(q) =>
            /\ qpc[q] = "END"
            /\ HttpReply(q).status_code = 200
            /\ ~HttpReply(q).response.none
            /\ \A f \in LlmFaults(q) :
                    /\ Contains(HttpReply(q).response, "error")
                    /\ Contains(HttpReply(q).response, f.what)
            /\ LlmFaults(q) = {} =>
                    /\ Len(HttpReply(q).response.text) = 1
                    /\ HttpReply(q).response.text[1] \in {"answer", ""}

C13_Witness ==
    \E q \in QueryIds :
        /\ EndedWithFault(q)
        /\ SearchFaults(q) # {}
        /\ LlmFaults(q) = {}
        /\ HttpReply(q).status_code = 200
        /\ HttpReply(q).response.text = <<"answer">>

----------------------------------------------------------------------------
(* Properties of CodebaseRetriever (specification RetrieverSpec)           *)

\* The documents of repository r in a list, in the list's order.
Of(docs, r) == SelectSeq(docs, LAMBDA x : x.repo = r)

\* docs is the beginning of the ranking the index of r gives for query q.
IsRanking(docs, r, q) ==
    /\ vectorstores[r].loaded
    /\ docs = similarity_search(vectorstores[r], q, Len(docs))

\* C14: retrieve_from_both(q, k) asks each repository for k \div 2 results and
\* returns at most 2 * (k \div 2) documents: those of ccp-vap in the order
\* their index ranked them, then those of ccp-execute in the order their index
\* ranked them. An odd k loses one slot: at most 4 for k = 5, none for k = 1.
C14_BothSplitsK ==
    rcall.fn = "retrieve_from_both" =>
        LET half == rcall.k \div 2
            vap == Of(rcall.docs, "ccp-vap")
            execute == Of(rcall.docs, "ccp-execute")
        IN  /\ rcall.asked = <<Asked("ccp-vap", half), Asked("ccp-execute", half)>>
            /\ Len(rcall.docs) <= 2 * half
            /\ rcall.docs = vap \o execute
            /\ Len(vap) <= half /\ Len(execute) <= half
            /\ vap # <<>> => IsRanking(vap, "ccp-vap", rcall.query)
            /\ execute # <<>> => IsRanking(execute, "ccp-execute", rcall.query)
            /\ rcall.k = 5 => Len(rcall.docs) <= 4
            /\ rcall.k = 1 => rcall.docs = <<>>

C14_Witness ==
    /\ rcall.fn = "retrieve_from_both"
    /\ rcall.k = 5
    /\ rcall.query = "q2"
    /\ rcall.docs = <<Doc("ccp-vap", 3), Doc("ccp-vap", 2), Doc("ccp-execute", 1)>>

\* C15: retrieve_from_vap and retrieve_from_execute never raise: the result
\* is the empty list when the index is absent or the similarity search
\* raises, and otherwise what the index returns for the requested k, at most
\* k documents.
C15_RetrieveNeverRaises ==
    rcall.fn = "retrieve_from" =>
        LET ix == vectorstores[rcall.repo]
        IN  /\ ~rcall.raised
            /\ ~ix.loaded => rcall.docs = <<>>
            /\ rcall.repo \in rcall.fails => rcall.docs = <<>>
            /\ ix.loaded /\ rcall.repo \notin rcall.fails =>
                    rcall.docs = similarity_search(ix, rcall.query, rcall.k)
            /\ Len(rcall.docs) <= rcall.k

C15_Witness ==
    /\ rcall.fn = "retrieve_from"
    /\ rcall.repo = "ccp-vap"
    /\ vectorstores["ccp-vap"].loaded
    /\ rcall.fails = {"ccp-vap"}
    /\ rcall.k = 2
    /\ rcall.docs = <<>>
    /\ ~rcall.raised

\* C16: constructing a CodebaseRetriever never fails because an index is
\* missing or cannot be loaded: the constructor completes, a repository
\* without a loadable index is left absent, and a later search of it returns
\* the empty list.
C16_ConstructionNeverFails ==
    /\ retriever # "raised"
    /\ retriever = "constructed" =>
            \A r \in Repos : disk[r] # "index" => ~vectorstores[r].loaded
    /\ rcall.fn = "retrieve_from" /\ disk[rcall.repo] # "index" =>
            rcall.docs = <<>> /\ ~rcall.raised

C16_Witness ==
    /\ retriever = "constructed"
    /\ disk["ccp-vap"] = "index"
    /\ disk["ccp-execute"] = "unloadable"
    /\ vectorstores["ccp-vap"].loaded
    /\ rcall.fn = "retrieve_from"
    /\ rcall.repo = "ccp-execute"
    /\ rcall.k = 5
    /\ rcall.docs = <<>>

\* C17: format_retrieved_docs gives the empty string for the empty list, and
\* otherwise one block per document in the order of the list, block i
\* carrying the ordinal i (1..n without gaps, whatever repositories the
\* documents come from), the document's source path, or 'Unknown' when it
\* has none, and the document's content.
C17_FormatNumbersInOrder ==
    rcall.fn = "format_retrieved_docs" =>
        /\ rcall.docs = <<>> => rcall.context = <<>>
        /\ Len(rcall.context) = Len(rcall.docs)
        /\ \A i \in 1..Len(rcall.docs) :
                /\ rcall.context[i].ordinal = i
                /\ rcall.context[i].content = PageContent(rcall.docs[i])
                /\ rcall.docs[i].has_source => rcall.context[i].source = Source(rcall.docs[i])
                /\ ~rcall.docs[i].has_source => rcall.context[i].source = "Unknown"

C17_Witness ==
    /\ rcall.fn = "format_retrieved_docs"
    /\ rcall.docs = <<Doc("ccp-vap", 1), Doc("ccp-vap", 2), Doc("ccp-execute", 1)>>
    /\ rcall.context[2] = [ordinal |-> 2, source |-> "Unknown", content |-> PageContent(Doc("ccp-vap", 2))]
    /\ rcall.context[3].ordinal = 3
    /\ rcall.context[3].source = "ccp-execute/File.java"

----------------------------------------------------------------------------
(* Properties of CodebaseEmbedder (specification EmbedderSpec)             *)

\* The files of a tree, each with the path of its directory.
TreeFiles(t) ==
    LET walk == os_walk(t)
    IN  UNION {{[dirpath |-> walk[i].dirpath, file |-> walk[i].filenames[j]] :
                    j \in 1..Len(walk[i].filenames)} : i \in 1..Len(walk)}

\* The name contains 'test', in any letter case.
ContainsTest(name) ==
    \E i \in 1..(Len(name) - 1) : name[i] \in {"te", "Te"} /\ name[i + 1] \in {"st", "ST"}

\* The three conditions on a file's name and directory.
Passes(e) ==
    /\ e.file.name[Len(e.file.name)] \in {".java", ".md", ".txt"}
    /\ ~ContainsTest(e.file.name)
    /\ \A i \in 1..Len(e.dirpath) : ~ContainsTest(e.dirpath[i])

\* The file is among the documents load_code_files returned.
Included(e) ==
    \E i \in 1..Len(loaded.docs) : loaded.docs[i] = Text(Append(e.dirpath, e.file.name))

\* C18 as stated: load_code_files includes a file if and only if its name
\* ends with a supported extension, its name does not contain 'test' and no
\* segment of its directory path contains 'test'.
C18_Original ==
    loaded.done => \A e \in TreeFiles(tree) : Included(e) <=> Passes(e)

\* C18: load_code_files includes a file if and only if the file can be opened
\* and read, its name ends with a supported extension, its name does not
\* contain 'test' (in any letter case) and no segment of its directory path
\* contains 'test'; so a directory with such a segment contributes no file,
\* and neither does a directory below it.
C18_IncludedIffPassesAndReadable ==
    loaded.done =>
        /\ \A e \in TreeFiles(tree) : Included(e) <=> (Passes(e) /\ e.file.readable)
        /\ \A e \in TreeFiles(tree) :
                (\E i \in 1..Len(e.dirpath) : ContainsTest(e.dirpath[i])) => ~Included(e)

C18_Witness ==
    /\ loaded.done
    /\ tree.root = << <<"repo">> >>
    /\ tree.d1 = <<"Te", "ST", "s">>
    /\ tree.d2 = <<"main">>
    /\ tree.files0 = <<[name |-> <<"A", "Te", "ST", ".md">>, readable |-> TRUE],
                       [name |-> <<"B", ".md">>, readable |-> TRUE]>>
    /\ tree.files1 = <<[name |-> <<"A", ".java">>, readable |-> TRUE]>>
    /\ tree.files2 = <<[name |-> <<"A", ".java">>, readable |-> TRUE]>>
    /\ loaded.docs = <<Text(<< <<"repo">>, <<"B", ".md">> >>)>>

\* C19: a file that cannot be opened or read is skipped alone: it adds an
\* entry to neither list, the walk goes on to every later file, and the two
\* lists returned have the same length, metadata entry i naming the path of
\* document i; the chunks made of them carry the metadata of their document.
C19_ReadFailureSkipsOneFile ==
    /\ loaded.done =>
            /\ Len(loaded.docs) = Len(loaded.metadatas)
            /\ \A i \in 1..Len(loaded.docs) :
                    loaded.docs[i] = Text(loaded.metadatas[i].source)
            /\ \A e \in TreeFiles(tree) :
                    /\ Passes(e) /\ e.file.readable => Included(e)
                    /\ ~e.file.readable =>
                            \A i \in 1..Len(loaded.metadatas) :
                                loaded.metadatas[i].source # Append(e.dirpath, e.file.name)
    /\ chunked.done =>
            /\ Len(chunked.chunks) = Len(chunked.chunk_metas)
            /\ \A i \in 1..Len(chunked.chunks) :
                    chunked.chunks[i].chunk_of = Text(chunked.chunk_metas[i].source)

C19_Witness ==
    /\ chunked.done
    /\ tree.root = << <<"repo">> >>
    /\ tree.d1 = <<"src">>
    /\ tree.files0 = <<[name |-> <<"A", ".java">>, readable |-> FALSE],
                       [name |-> <<"B", ".md">>, readable |-> TRUE]>>
    /\ tree.files1 = <<[name |-> <<"A", ".java">>, readable |-> TRUE]>>
    /\ loaded.metadatas[1].source = << <<"repo">>, <<"B", ".md">> >>
    /\ loaded.metadatas[2].source = << <<"repo">>, <<"src">>, <<"A", ".java">> >>
    /\ Len(chunked.chunks) >= 3

----------------------------------------------------------------------------
(* Properties of embed_codebase (specification BuildSpec)                  *)

\* C21: when the embedding or the index construction of an embed_codebase
\* call fails, the call raises, returns no location, and what is persisted is
\* what was persisted before the call: nothing is written, an earlier index
\* of the repository stays as it was.
C21_FailedBuildWritesNothing ==
    ecall.called /\ ecall.embedding = "raises" =>
        /\ ecall.raised
        /\ ecall.path = NoPath
        /\ disk = ecall.before

C21_Witness ==
    /\ ecall.called
    /\ ecall.embedding = "raises"
    /\ ecall.name = "ccp-vap"
    /\ ecall.output_dir = VECTORSTORE_DIR
    /\ ecall.before["ccp-vap"] = "index"
    /\ disk["ccp-vap"] = "index"
    /\ Len(chunked.chunks) >= 2

----------------------------------------------------------------------------
(* Properties of concurrent queries and of the selector (AgentSpec)        *)

\* The message m belongs to call q: it is the system instruction, the query
\* of q, or the context made of the documents retrieved for q.
OwnMessage(q, m) ==
    \/ m = SystemMessage
    \/ m.kind = "query" /\ m.text = QueryText[q]
    \/ m.kind = "context" /\ m.context = format_retrieved_docs(state[q].retrieved_docs)

\* C23: queries served by one agent share no mutable state: the state of a
\* call holds its own query, its messages and the model input made of them
\* are its own, its retrieved documents are the ranking for its own query,
\* nothing of a call is kept after it has returned, and the index handles are
\* the ones loaded at construction.
C23_QueriesShareNothing ==
    /\ vectorstores = load_vectorstores(disk)
    /\ \A q \in QueryIds :
        IF qpc[q] = "idle"
        THEN state[q] = NoState /\ llm_input[q] = <<>>
        ELSE /\ state[q].query = QueryText[q]
             /\ \A i \in 1..Len(state[q].messages) : OwnMessage(q, state[q].messages[i])
             /\ \A i \in 1..Len(llm_input[q]) : OwnMessage(q, llm_input[q][i])
             /\ Len(llm_input[q]) <= 3
             /\ \A r \in Repos :
                    Of(state[q].retrieved_docs, r) # <<>> =>
                        IsRanking(Of(state[q].retrieved_docs, r), r, QueryText[q])

C23_Witness ==
    /\ qpc["a"] = "END"
    /\ qpc["b"] = "END"
    /\ Len(llm_input["a"]) = 3
    /\ Len(llm_input["b"]) = 3
    /\ llm_input["a"][3] # llm_input["b"][3]
    /\ state["a"].retrieved_docs # state["b"].retrieved_docs

\* The retrieve step of call q has run.
Retrieved(q) == \E i \in 1..Len(trace[q]) : trace[q][i] = "retrieve_code"

\* C29: the retrieve step resolves every selector to one of three retrievals
\* without error: exactly 'ccp-vap' searches only ccp-vap with k = 5, exactly
\* 'ccp-execute' searches only ccp-execute with k = 5, and every other value
\* ('both', no value, another letter case) searches both with 2 + 2.
C29_SelectorResolution ==
    \A q \in QueryIds :
        Retrieved(q) =>
            /\ qpc[q] # "raised"
            /\ req[q].codebase = "ccp-vap" => req[q].asked = <<Asked("ccp-vap", 5)>>
            /\ req[q].codebase = "ccp-execute" => req[q].asked = <<Asked("ccp-execute", 5)>>
            /\ req[q].codebase \notin {"ccp-vap", "ccp-execute"} =>
                    req[q].asked = <<Asked("ccp-vap", 2), Asked("ccp-execute", 2)>>

C29_Witness ==
    \E q \in QueryIds :
        /\ Retrieved(q)
        /\ req[q].codebase = "CCP-VAP"
        /\ req[q].asked = <<Asked("ccp-vap", 2), Asked("ccp-execute", 2)>>
        /\ Len(state[q].retrieved_docs) = 3

----------------------------------------------------------------------------
(* Further properties of the external clients (specification Spec)         *)

\* The query, without comments, is one SELECT statement and nothing else.
OnlySelect(q) ==
    LET c == Clean(q)
    IN  /\ c # <<>>
        /\ Head(c) = "SELECT"
        /\ \A i \in 1..Len(c) : c[i] \notin {";", "DELETE", "DROP"}

\* C24: a query of execute_query that is not a single SELECT statement is
\* rejected: the call has returned success = false with the 'Only SELECT
\* statements are allowed' error, and has made no credential lookup and no
\* database connection.
C24_OnlySelectReachesDatabase ==
    (op = "database.execute_query" /\ ~OnlySelect(query)) =>
        /\ pc = "returned"
        /\ ~result.success
        /\ result.error.kind = "Only SELECT statements are allowed"
        /\ ~lookup.made
        /\ log = <<>>

\* The last attempt of the call.
LastOutcome == outcomes[Len(outcomes)]

\* C25: a returned _make_request call made its attempts while they timed
\* out and stopped at the first, among the first MAX_RETRIES, that did not:
\* the result is that attempt's (success for status 200, the received status
\* for another status, 500 for another exception), with exactly one sleep of
\* RETRY_DELAY between any two attempts; and only timeouts precede another
\* attempt.
C25_FirstNonTimeoutDecides ==
    InExecutor =>
        /\ \A i \in 1..(Len(outcomes) - 1) : outcomes[i].kind = "timeout"
        /\ pc \in {"request", "sleep"} => AllTimeouts
        /\ pc = "returned" =>
            /\ Len(outcomes) \in 1..MAX_RETRIES
            /\ Len(log) = 2 * Len(outcomes) - 1
            /\ Alternates(log)
            /\ slept = (Len(outcomes) - 1) * RETRY_DELAY
            /\ LastOutcome.kind = "timeout" =>
                    Len(outcomes) = MAX_RETRIES /\ result.status_code = 408
            /\ LastOutcome.kind = "error" =>
                    ~result.success /\ result.status_code = 500
            /\ (LastOutcome.kind = "response" /\ LastOutcome.status # 200) =>
                    ~result.success /\ result.status_code = LastOutcome.status
            /\ (LastOutcome.kind = "response" /\ LastOutcome.status = 200) =>
                    IF LastOutcome.body \in {"json_object", "json_null"}
                    THEN result.success /\ result.status_code = 200
                    ELSE ~result.success /\ result.status_code = 500

C25_Witness ==
    /\ InExecutor
    /\ pc = "returned"
    /\ Len(outcomes) = 2
    /\ outcomes[1].kind = "timeout"
    /\ outcomes[2].kind = "response"
    /\ outcomes[2].status = 404
    /\ log = <<"http", "sleep", "http">>
    /\ slept = RETRY_DELAY
    /\ result.status_code = 404

\* C28: a _make_request call whose last attempt received a 2xx status with a
\* JSON-object body has returned success = true, and a call that ended with a
\* response is reported as failed only when the status is outside 200..299.
C28_Every2xxSucceeds ==
    (InExecutor /\ pc = "returned" /\ LastOutcome.kind = "response") =>
        /\ (LastOutcome.status \in 200..299 /\ LastOutcome.body = "json_object") =>
                result.success
        /\ (~result.success /\ LastOutcome.body = "json_object") =>
                LastOutcome.status \notin 200..299

\* The environment a secret name names: rds/<environment>/...
SecretEnvironment(name) ==
    CASE name = "rds/beta/ccp-beta-psql" -> "beta"
      [] name = "rds/prod/ccp-prod-psql" -> "prod"
      [] name = "rds/qa/ccp-qa-psql" -> "qa"
      [] OTHER -> "none"

\* The environment a database name names: ccp_<environment>
DatabaseEnvironment(name) ==
    CASE name = "ccp_qa" -> "qa"
      [] name = "ccp_beta" -> "beta"
      [] name = "ccp_prod" -> "prod"
      [] OTHER -> "none"

\* C30: the secret name an execute_query call looks up belongs to the
\* environment of the call and to no other environment, and the database
\* name of the call belongs to the same environment.
C30_SecretPerEnvironment ==
    (op = "database.execute_query" /\ lookup.made) =>
        /\ SecretEnvironment(lookup.name) = env
        /\ \A e \in Environments \ {env} : get_database_secret(e) # lookup.name
        /\ pc = "connect" => DatabaseEnvironment(database) = env

----------------------------------------------------------------------------
(* Further properties of the retriever's loading and of load_code_files    *)

\* C26: index loading is independent per repository: a constructed retriever
\* holds the index of every repository whose persisted index exists and is
\* loadable, whatever happened to the load of the other one, and a search of
\* it that does not fail finds documents.
C26_LoadingIsPerRepository ==
    retriever = "constructed" =>
        /\ \A r \in Repos : disk[r] = "index" => vectorstores[r].loaded
        /\ (/\ rcall.fn = "retrieve_from"
            /\ disk[rcall.repo] = "index"
            /\ rcall.repo \notin rcall.fails
            /\ rcall.k >= 1) => rcall.docs # <<>>

\* The files a load_code_files result names, relative to the root directory.
RelativeFiles(res, root) ==
    {SubSeq(res.metadatas[i].source, Len(root) + 1, Len(res.metadatas[i].source)) :
        i \in 1..Len(res.metadatas)}

\* C27: the files load_code_files includes depend only on their paths
\* relative to the root directory: the same tree under another root location
\* gives the same set of relative files.
C27_RootLocationIrrelevant ==
    loaded.done =>
        \A other \in Roots :
            RelativeFiles(loaded, tree.root)
                = RelativeFiles(load_code_files([tree EXCEPT !.root = other]), other)

====
